---- MODULE Spec2Model ----
(***************************************************************************)
(* The TTL cache store of crypto-mcp-server (src/cache.py, CacheManager):  *)
(* an in-memory dict of entries, rewritten in full to a JSON backing file  *)
(* on every save, clear and evicting get, and loaded from that file once,  *)
(* in the constructor.                                                     *)
(*                                                                         *)
(* Time is counted in whole minutes.  An ISO-8601 timestamp string is      *)
(* modelled by the minute it denotes (a number >= 0); strings that         *)
(* datetime.fromisoformat rejects are modelled by negative numbers.        *)
(***************************************************************************)
EXTENDS Integers, Sequences, FiniteSets

VARIABLES
    cache_file,   \* self.cache_file of the current store ("" before any store)
    ttl_minutes,  \* self.ttl_minutes
    cache_type,   \* Python type of self.cache_data: "dict", "list"; "unset": no store object
    cache_data,   \* self.cache_data when it is a dict: a function key -> entry
    file,         \* the backing file data/cache.json: [kind, items]
    now,          \* the wall clock, datetime.now()
    opened,       \* outcome of the latest constructor call
    failures,     \* how many writes of the backing file have failed so far
    last,         \* the latest store operation and what it returned; `at` is
                  \* the clock reading at which a save ran
    active,       \* whose store the fields above are: "server" (MCPServer.cache)
                  \* or "demo" (LiveCryptoDemo.cache)
    parked,       \* the other store object, on the same backing file
    error_log,    \* the lines of ErrorHandler's log file data/errors.log
    handled,      \* what the latest ErrorHandler.handle call returned
    api,          \* the latest CryptoAPI call: arguments, outcome, exchange requests
    served        \* what the latest MCPServer.get_current_price call did and returned

\* What the operations of one store leave alone.
aside == <<active, parked, error_log, handled, api, served>>

vars == <<cache_file, ttl_minutes, cache_type, cache_data, file, now, opened, failures,
          last, aside>>

----------------------------------------------------------------------------
(* Bounds *)

MaxTime == 2
MaxTtl == 1
MaxFailures == 1
MaxLog == 2
MaxSymbols == 3
MaxSleeps == 2
MaxServerLog == 1

(* Inputs *)

\* Keys handed to get/save/clear, in the order JsonDump writes them.
KeySeq == <<"", "BTC", "ETH">>
Keys == {KeySeq[i] : i \in DOMAIN KeySeq}

\* clear()'s default argument, symbol=None.
NoSymbol == "<None>"

Prices == {45000}

\* A price json.dump has no encoding for: a Decimal, a datetime, a set.
Unencodable == -45000

\* The default of cached_entry.get('timestamp', ''): the empty string.
EmptyStr == -1
\* A timestamp string that is not ISO-8601.
NotIso == -2
\* A timestamp that is not a string (a number, null).
NonStr == -3

Stamps == (0 .. MaxTime) \cup {NotIso}

\* The dicts a caller saves: with and without a 'timestamp' field of its own.
Values == [price : Prices] \cup [price : Prices, timestamp : Stamps]

\* The two kinds of backing path: with a directory part, and a bare file name.
DirPath == "data/cache.json"
BarePath == "cache.json"
Paths == {DirPath, BarePath}

\* os.path.dirname(path)
dirname(path) == IF path = DirPath THEN "data" ELSE ""

----------------------------------------------------------------------------
(* Values of the model *)

EmptyDict == [k \in {} |-> 0]
NoValue == [none |-> TRUE]

\* No store object: none constructed yet, or the constructor raised.
NoStore ==
    [cache_file |-> "", ttl_minutes |-> 0, cache_type |-> "unset", cache_data |-> <<>>,
     opened |-> [status |-> "none", fresh |-> FALSE],
     last |-> [op |-> "none", key |-> "<None>", status |-> "ok", value |-> [none |-> TRUE],
               persist |-> "none", at |-> 0, before |-> "absent", after |-> "other",
               dropped |-> {}]]

\* A file that does not exist.
MissingFile == [kind |-> "missing", items |-> <<>>]

\* The contents the backing file may have before the first store is opened:
\* no file, a file that cannot be read, text that is not JSON, a JSON array
\* (of numbers), an empty JSON object.
InitialFiles ==
    { [kind |-> k, items |-> <<>>] :
        k \in {"missing", "unreadable", "corrupt", "array", "object"} }

----------------------------------------------------------------------------
(* JSON *)

\* json.dump of a dict with string keys: the sequence of its (key, value)
\* members.  The members are written in KeySeq order; json.load builds a
\* dict, whose equality does not depend on the order of the members.
JsonDump(d) ==
    LET ks == SelectSeq(KeySeq, LAMBDA k : k \in DOMAIN d)
    IN  [i \in 1 .. Len(ks) |-> <<ks[i], d[ks[i]]>>]

\* json.load of a JSON object: the dict of its members.
JsonLoad(items) ==
    [k \in {items[i][1] : i \in DOMAIN items} |->
        items[CHOOSE i \in DOMAIN items : items[i][1] = k][2]]

MemberKeys(f) == {f.items[i][1] : i \in DOMAIN f.items}

----------------------------------------------------------------------------
(* CacheManager helpers *)

\* _ensure_data_dir: os.makedirs(os.path.dirname(cache_file), exist_ok=True)
\* raises FileNotFoundError on the empty directory name.
ensure_data_dir_raises(path) == dirname(path) = ""

\* A faulty _load_cache: the loaded content is dropped, every store starts empty.
load_cache_empty(f) ==
    IF f.kind = "array"
    THEN [type |-> "list", data |-> EmptyDict]
    ELSE [type |-> "dict", data |-> EmptyDict]

\* _load_cache, after _ensure_data_dir: the type and content of cache_data.
load_cache(f) ==
    CASE f.kind = "missing" -> [type |-> "dict", data |-> EmptyDict]
      [] f.kind \in {"unreadable", "corrupt"} -> [type |-> "dict", data |-> EmptyDict]
      [] f.kind = "array" -> [type |-> "list", data |-> EmptyDict]
      [] f.kind = "object" -> [type |-> "dict", data |-> JsonLoad(f.items)]

\* What _save_cache writes for cache_data of the given type.
dumped(type, data) ==
    IF type = "list"
    THEN [kind |-> "array", items |-> <<>>]
    ELSE [kind |-> "object", items |-> JsonDump(data)]

\* A faulty _is_expired: the except branch returns False.
is_expired_lenient(timestamp_str, ttl, clock) ==
    IF timestamp_str < 0
    THEN FALSE
    ELSE clock > timestamp_str + ttl

\* A faulty _is_expired: timedelta(hours=...) in place of timedelta(minutes=...).
is_expired_hours(timestamp_str, ttl, clock) ==
    IF timestamp_str < 0
    THEN TRUE
    ELSE clock > timestamp_str + 60 * ttl

\* _is_expired(timestamp_str): fromisoformat raises on a string that is not
\* ISO-8601, and the bare except returns True.
is_expired(timestamp_str, ttl, clock) ==
    IF timestamp_str < 0
    THEN TRUE
    ELSE clock > timestamp_str + ttl

\* cached_entry.get('timestamp', '')
timestamp_of(entry) ==
    IF "timestamp" \in DOMAIN entry THEN entry.timestamp ELSE EmptyStr

\* if symbol: (None and '' are falsy)
truthy(symbol) == symbol # NoSymbol /\ symbol # ""

\* del self.cache_data[symbol]
del(d, symbol) == [k \in DOMAIN d \ {symbol} |-> d[k]]

\* A faulty assignment: every entry of the dict is set to the new data.
setitem_all(d, symbol, data) ==
    [k \in DOMAIN d \cup {symbol} |-> data]

\* self.cache_data[symbol] = data
setitem(d, symbol, data) ==
    [k \in DOMAIN d \cup {symbol} |-> IF k = symbol THEN data ELSE d[k]]

----------------------------------------------------------------------------
(* History: what the latest operation was *)

\* The keys the backing file held before a write and does not hold after it.
lost(written_file) == MemberKeys(file) \ MemberKeys(written_file)

\* The state of key k in the store before an operation: "unstamped" when its
\* entry has no timestamp that parses, "expired" when the timestamp parses and
\* the TTL has run out.
before(k) ==
    IF cache_type # "dict" \/ k \notin DOMAIN cache_data THEN "absent"
    ELSE IF timestamp_of(cache_data[k]) < 0 THEN "unstamped"
    ELSE IF is_expired(timestamp_of(cache_data[k]), ttl_minutes, now) THEN "expired"
    ELSE "valid"

\* Which operation a get(k) directly follows, when that one was a save or a
\* clear of the same key: on the same store, or on the store opened before it.
after(k) ==
    IF last.key = k /\ last.status = "ok" /\ last.op \in {"save", "clear"}
    THEN (IF opened.fresh
          THEN (IF last.op = "save" THEN "save-reopen" ELSE "clear-reopen")
          ELSE last.op)
    ELSE "other"

\* Whether a get_cache_info() directly follows a successful clear() without a
\* key on the same store.
after_info ==
    IF last.op = "clear" /\ last.key = NoSymbol /\ last.status = "ok" /\ ~opened.fresh
    THEN "clear"
    ELSE "other"

Init ==
    /\ cache_file = ""
    /\ ttl_minutes = 0
    /\ cache_type = "unset"
    /\ cache_data = EmptyDict
    /\ file \in InitialFiles
    /\ now = 0
    /\ opened = [status |-> "none", fresh |-> FALSE]
    /\ failures = 0
    /\ last = [op |-> "none", key |-> NoSymbol, status |-> "ok", value |-> NoValue,
               persist |-> "none", at |-> 0, before |-> "absent", after |-> "other",
               dropped |-> {}]
    /\ active = "server"
    /\ parked = NoStore
    /\ error_log = <<>>
    /\ handled = [status |-> "none", response |-> NoValue, log |-> "none"]
    /\ api = [op |-> "none", symbols |-> <<>>, oks |-> <<>>, status |-> "none",
              value |-> NoValue, calls |-> 0]
    /\ served = [symbol |-> NoSymbol, status |-> "none", kind |-> "none", value |-> NoValue,
                 fetches |-> 0, requests |-> 0, evicted |-> FALSE, answered |-> FALSE]

----------------------------------------------------------------------------
(* Operations *)

\* CacheManager(cache_file, ttl_minutes): __init__ and _load_cache.
Open(path, ttl) ==
    /\ IF ensure_data_dir_raises(path)
       THEN /\ opened' = [status |-> "raise", fresh |-> TRUE]
            /\ cache_type' = "unset"
            /\ cache_data' = EmptyDict
       ELSE /\ opened' = [status |-> "ok", fresh |-> TRUE]
            /\ cache_type' = load_cache(file).type
            /\ cache_data' = load_cache(file).data
    /\ cache_file' = path
    /\ ttl_minutes' = ttl
    /\ UNCHANGED <<file, now, failures, last>>
    /\ UNCHANGED aside

\* A faulty _save_cache: the file is written before cache_data is updated.
save_cache_early(type, data, wok) == IF wok THEN dumped(cache_type, cache_data) ELSE file

\* A faulty _save_cache: the members the file already holds are kept, and
\* those of cache_data written over them.
save_cache_merge(type, data, wok) ==
    IF ~wok THEN file
    ELSE IF type = "dict" /\ file.kind = "object"
    THEN dumped(type, [k \in MemberKeys(file) \cup DOMAIN data |->
                          IF k \in DOMAIN data THEN data[k] ELSE JsonLoad(file.items)[k]])
    ELSE dumped(type, data)

\* Whether json.dump can encode cache_data: it raises TypeError on a value
\* that has no JSON encoding.
encodable(type, data) ==
    type # "dict" \/
    \A k \in DOMAIN data : "price" \in DOMAIN data[k] => data[k].price # Unencodable

\* The file after a json.dump that raised: open(..., 'w') has emptied it and
\* the text written up to the value that could not be encoded is not JSON.
Torn == [kind |-> "corrupt", items |-> <<>>]

\* _save_cache: the backing file afterwards.  wok: whether makedirs and
\* open(..., 'w') succeed; when they do not the file is as it was, and when
\* json.dump raises after them the file is torn.
save_cache(type, data, wok) ==
    IF ~wok THEN file
    ELSE IF encodable(type, data) THEN dumped(type, data)
    ELSE Torn

\* Whether _save_cache returns: makedirs, open and json.dump all succeed.
dumps(type, data, wok) == wok /\ encodable(type, data)

\* A faulty _save_cache: its body wrapped in try/except: pass.
write_status_swallowed(wok, done) == done

\* How a call that ran _save_cache ends: _save_cache catches nothing, so an
\* error of open() or json.dump() leaves the operation as an exception.
write_status(wok, done) == IF wok THEN done ELSE "raise"

written(wok) == IF wok THEN "ok" ELSE "failed"

used == [opened EXCEPT !.fresh = FALSE]

counted(persist) == IF persist = "failed" THEN failures + 1 ELSE failures

\* A faulty get: a hit rewrites the backing file before it returns.
Get_touch(symbol, wok) ==
    /\ cache_type # "unset"
    /\ IF cache_type = "list" \/ symbol \notin DOMAIN cache_data
       THEN \* `symbol in self.cache_data` is false: return None
            /\ last' = [op |-> "get", key |-> symbol, status |-> "miss",
                        value |-> NoValue, persist |-> "none", at |-> 0,
                        before |-> before(symbol), after |-> after(symbol),
                     dropped |-> {}]
            /\ UNCHANGED <<cache_data, file>>
       ELSE IF is_expired(timestamp_of(cache_data[symbol]), ttl_minutes, now)
       THEN \* del, _save_cache, return None
            /\ cache_data' = del(cache_data, symbol)
            /\ file' = save_cache(cache_type, cache_data', wok)
            /\ last' = [op |-> "get", key |-> symbol,
                        status |-> write_status(dumps(cache_type, cache_data', wok), "miss"),
                        value |-> NoValue,
                        persist |-> written(dumps(cache_type, cache_data', wok)), at |-> 0,
                        before |-> before(symbol), after |-> after(symbol),
                     dropped |-> lost(file')]
       ELSE \* _save_cache, return cached_entry
            /\ cache_data' = cache_data
            /\ file' = save_cache(cache_type, cache_data', wok)
            /\ last' = [op |-> "get", key |-> symbol,
                        status |-> write_status(wok, "hit"),
                        value |-> cache_data[symbol], persist |-> written(wok), at |-> 0,
                        before |-> before(symbol), after |-> after(symbol),
                     dropped |-> lost(file')]
    /\ opened' = used
    /\ failures' = counted(last'.persist)
    /\ UNCHANGED <<cache_file, ttl_minutes, cache_type, now>>
    /\ UNCHANGED aside

\* get(symbol); wok: whether a write of the backing file succeeds.
Get(symbol, wok) ==
    /\ cache_type # "unset"
    /\ IF cache_type = "list" \/ symbol \notin DOMAIN cache_data
       THEN \* `symbol in self.cache_data` is false: return None
            /\ last' = [op |-> "get", key |-> symbol, status |-> "miss",
                        value |-> NoValue, persist |-> "none", at |-> 0,
                        before |-> before(symbol), after |-> after(symbol),
                     dropped |-> {}]
            /\ UNCHANGED <<cache_data, file>>
       ELSE IF is_expired(timestamp_of(cache_data[symbol]), ttl_minutes, now)
       THEN \* del, _save_cache, return None
            /\ cache_data' = del(cache_data, symbol)
            /\ file' = save_cache(cache_type, cache_data', wok)
            /\ last' = [op |-> "get", key |-> symbol,
                        status |-> write_status(dumps(cache_type, cache_data', wok), "miss"),
                        value |-> NoValue,
                        persist |-> written(dumps(cache_type, cache_data', wok)), at |-> 0,
                        before |-> before(symbol), after |-> after(symbol),
                     dropped |-> lost(file')]
       ELSE \* return cached_entry
            /\ last' = [op |-> "get", key |-> symbol, status |-> "hit",
                        value |-> cache_data[symbol], persist |-> "none", at |-> 0,
                        before |-> before(symbol), after |-> after(symbol),
                     dropped |-> {}]
            /\ UNCHANGED <<cache_data, file>>
    /\ opened' = used
    /\ failures' = counted(last'.persist)
    /\ UNCHANGED <<cache_file, ttl_minutes, cache_type, now>>
    /\ UNCHANGED aside

\* save(symbol, data)
Save(symbol, data, wok) ==
    /\ cache_type # "unset"
    /\ IF cache_type = "list"
       THEN \* list[str] = ... raises TypeError before _save_cache
            /\ last' = [op |-> "save", key |-> symbol, status |-> "raise",
                        value |-> data, persist |-> "none", at |-> now,
                        before |-> before(symbol), after |-> "other",
                     dropped |-> {}]
            /\ UNCHANGED <<cache_data, file>>
       ELSE /\ cache_data' = setitem(cache_data, symbol, data)
            /\ file' = save_cache(cache_type, cache_data', wok)
            /\ last' = [op |-> "save", key |-> symbol,
                        status |-> write_status(dumps(cache_type, cache_data', wok), "ok"),
                        value |-> data,
                        persist |-> written(dumps(cache_type, cache_data', wok)), at |-> now,
                        before |-> before(symbol), after |-> "other",
                     dropped |-> lost(file')]
    /\ opened' = used
    /\ failures' = counted(last'.persist)
    /\ UNCHANGED <<cache_file, ttl_minutes, cache_type, now>>
    /\ UNCHANGED aside

\* A faulty clear: without a key, only one entry is removed.
cleared_first(type, data, symbol) ==
    IF truthy(symbol)
    THEN IF type = "dict" /\ symbol \in DOMAIN data
         THEN [type |-> type, data |-> del(data, symbol)]
         ELSE [type |-> type, data |-> data]
    ELSE IF type = "dict" /\ data # EmptyDict
    THEN [type |-> type, data |-> del(data, CHOOSE k \in DOMAIN data : TRUE)]
    ELSE [type |-> "dict", data |-> EmptyDict]

\* A faulty clear: with a key given, the del is forgotten.
cleared_keep(type, data, symbol) ==
    IF truthy(symbol)
    THEN [type |-> type, data |-> data]
    ELSE [type |-> "dict", data |-> EmptyDict]

\* The dict part of clear(symbol): the type and content of cache_data afterwards.
cleared(type, data, symbol) ==
    IF truthy(symbol)
    THEN IF type = "dict" /\ symbol \in DOMAIN data
         THEN [type |-> type, data |-> del(data, symbol)]
         ELSE [type |-> type, data |-> data]
    ELSE [type |-> "dict", data |-> EmptyDict]

\* A faulty clear: the backing file is written only when an entry was removed.
Clear_lazy(symbol, wok) ==
    LET changed == cleared(cache_type, cache_data, symbol).data # cache_data
    IN  /\ cache_type # "unset"
        /\ cache_type' = cleared(cache_type, cache_data, symbol).type
        /\ cache_data' = cleared(cache_type, cache_data, symbol).data
        /\ file' = IF changed THEN save_cache(cache_type', cache_data', wok) ELSE file
        /\ last' = [op |-> "clear", key |-> symbol,
                    status |-> IF changed THEN write_status(wok, "ok") ELSE "ok",
                    value |-> NoValue,
                    persist |-> IF changed THEN written(wok) ELSE "none", at |-> 0,
                    before |-> before(symbol), after |-> "other",
                    dropped |-> lost(file')]
        /\ opened' = used
        /\ failures' = counted(last'.persist)
        /\ UNCHANGED <<cache_file, ttl_minutes, now>>
        /\ UNCHANGED aside

\* clear(symbol=None)
Clear(symbol, wok) ==
    /\ cache_type # "unset"
    /\ cache_type' = cleared(cache_type, cache_data, symbol).type
    /\ cache_data' = cleared(cache_type, cache_data, symbol).data
    /\ file' = save_cache(cache_type', cache_data', wok)
    /\ last' = [op |-> "clear", key |-> symbol,
                status |-> write_status(dumps(cache_type', cache_data', wok), "ok"),
                value |-> NoValue,
                persist |-> written(dumps(cache_type', cache_data', wok)), at |-> 0,
                before |-> before(symbol), after |-> "other",
             dropped |-> lost(file')]
    /\ opened' = used
    /\ failures' = counted(last'.persist)
    /\ UNCHANGED <<cache_file, ttl_minutes, now>>
    /\ UNCHANGED aside

\* get_cache_info()
GetCacheInfo ==
    /\ cache_type # "unset"
    /\ IF cache_type = "list"
       THEN \* list has no keys(): AttributeError
            last' = [op |-> "info", key |-> NoSymbol, status |-> "raise",
                     value |-> NoValue, persist |-> "none", at |-> 0,
                     before |-> "absent", after |-> "other",
                     dropped |-> {}]
       ELSE last' = [op |-> "info", key |-> NoSymbol, status |-> "ok",
                     value |-> [file |-> cache_file, ttl_minutes |-> ttl_minutes,
                                cached_symbols |-> DOMAIN cache_data,
                                total_entries |-> Cardinality(DOMAIN cache_data)],
                     persist |-> "none", at |-> 0,
                     before |-> "absent", after |-> after_info,
                     dropped |-> {}]
    /\ opened' = used
    /\ UNCHANGED <<cache_file, ttl_minutes, cache_type, cache_data, file, now, failures>>
    /\ UNCHANGED aside

\* datetime.now() moves on.
Tick ==
    /\ now < MaxTime
    /\ now' = now + 1
    /\ UNCHANGED <<cache_file, ttl_minutes, cache_type, cache_data, file, opened, failures, last>>
    /\ UNCHANGED aside

----------------------------------------------------------------------------
(* A store whose writes of the backing file all succeed *)

Next ==
    \/ \E path \in Paths, ttl \in 0 .. MaxTtl : Open(path, ttl)
    \/ \E symbol \in Keys : Get(symbol, TRUE)
    \/ \E symbol \in Keys, data \in Values : Save(symbol, data, TRUE)
    \/ \E symbol \in Keys \cup {NoSymbol} : Clear(symbol, TRUE)
    \/ GetCacheInfo
    \/ Tick

Spec == Init /\ [][Next]_vars

----------------------------------------------------------------------------
(* A store whose backing file may be unwritable: up to MaxFailures writes fail *)

MayFail(wok) == wok \/ failures < MaxFailures

\* The keys used while writes may fail.
FailKeys == {"BTC", "ETH"}

NextFail ==
    \/ \E ttl \in 0 .. MaxTtl : Open(DirPath, ttl)
    \/ \E symbol \in FailKeys, wok \in BOOLEAN : MayFail(wok) /\ Get(symbol, wok)
    \/ \E symbol \in FailKeys, data \in Values, wok \in BOOLEAN :
            MayFail(wok) /\ Save(symbol, data, wok)
    \/ \E symbol \in FailKeys \cup {NoSymbol}, wok \in BOOLEAN :
            MayFail(wok) /\ Clear(symbol, wok)
    \/ GetCacheInfo
    \/ Tick

SpecFail == Init /\ [][NextFail]_vars

----------------------------------------------------------------------------
(* Two stores on one backing file: MCPServer() and LiveCryptoDemo() both      *)
(* construct CacheManager() on data/cache.json.                               *)

\* The program turns from one store object to the other.
Switch ==
    /\ active' = (IF active = "server" THEN "demo" ELSE "server")
    /\ parked' = [cache_file |-> cache_file, ttl_minutes |-> ttl_minutes,
                  cache_type |-> cache_type, cache_data |-> cache_data,
                  opened |-> opened, last |-> last]
    /\ cache_file' = parked.cache_file
    /\ ttl_minutes' = parked.ttl_minutes
    /\ cache_type' = parked.cache_type
    /\ cache_data' = parked.cache_data
    /\ opened' = parked.opened
    /\ last' = parked.last
    /\ UNCHANGED <<file, now, failures, error_log, handled, api, served>>

\* Both stores are constructed with the same TTL (the default of CacheManager).
\* The values saved while two stores are open: stamped by the caller with the
\* clock reading, as CryptoAPI.fetch_ticker does.
TwoValues == [price : Prices, timestamp : {0}]

NextTwo ==
    \/ Open(DirPath, MaxTtl)
    \/ \E symbol \in FailKeys : Get(symbol, TRUE)
    \/ \E symbol \in FailKeys, data \in TwoValues : Save(symbol, data, TRUE)
    \/ \E symbol \in FailKeys \cup {NoSymbol} : Clear(symbol, TRUE)
    \/ Switch

SpecTwo == Init /\ [][NextTwo]_vars

----------------------------------------------------------------------------
(* A store that is handed data json.dump cannot encode *)

\* The dicts saved here: stamped by the caller, with a price that has a JSON
\* encoding and one that has none.
TornValues == [price : Prices \cup {Unencodable}, timestamp : {0}]

\* At most MaxFailures writes fail, for whichever reason.
FewFailures == failures' <= MaxFailures

NextTorn ==
    \/ \E ttl \in 0 .. MaxTtl : Open(DirPath, ttl)
    \/ \E symbol \in FailKeys, wok \in BOOLEAN : Get(symbol, wok) /\ FewFailures
    \/ \E symbol \in FailKeys, data \in TornValues, wok \in BOOLEAN :
            Save(symbol, data, wok) /\ FewFailures
    \/ \E symbol \in FailKeys \cup {NoSymbol}, wok \in BOOLEAN :
            Clear(symbol, wok) /\ FewFailures
    \/ Tick

SpecTorn == Init /\ [][NextTorn]_vars

----------------------------------------------------------------------------
(* A store whose entries carry every kind of 'timestamp' field *)

\* What fromisoformat does not take: the empty string, text that is not
\* ISO-8601, a value that is not a string.
BadStamps == {EmptyStr, NotIso, NonStr}

\* The dicts saved here: no 'timestamp' field, one that does not parse, one
\* that does.
StampValues == [price : Prices] \cup [price : Prices, timestamp : BadStamps \cup {0}]

NextStamps ==
    \/ \E ttl \in 0 .. MaxTtl : Open(DirPath, ttl)
    \/ \E symbol \in FailKeys : Get(symbol, TRUE)
    \/ \E symbol \in FailKeys, data \in StampValues : Save(symbol, data, TRUE)
    \/ Tick

SpecStamps == Init /\ [][NextStamps]_vars

----------------------------------------------------------------------------
(* ErrorHandler (src/errors.py) *)

\* The exceptions handed to handle: type(exception).__name__ and str(exception).
Exceptions ==
    { [type |-> "ValueError", message |-> "Symbol must be uppercase"],
      [type |-> "Exception", message |-> "Error fetching BTC"] }

\* The context argument; "Unknown" is its default.
Contexts == {"Unknown", "BTC"}

\* A faulty _log_error: the log is opened with 'w', the earlier lines are lost.
appended_w(log, line) == <<line>>

\* _log_error: open(self.log_file, 'a') and write of one JSON line.
appended(log, line) == Append(log, line)

\* handle(exception, context); logok: whether makedirs, open and write of
\* _log_error succeed.  _log_error swallows its own failure.
Handle(exception, context, logok) ==
    LET error_response ==
            [error |-> TRUE, message |-> exception.message, context |-> context,
             timestamp |-> now, type |-> exception.type]
    IN  /\ logok => Len(error_log) < MaxLog
        /\ error_log' = IF logok THEN appended(error_log, error_response) ELSE error_log
        /\ handled' = [status |-> "return", response |-> error_response,
                       log |-> IF logok THEN "ok" ELSE "failed"]
        /\ UNCHANGED <<cache_file, ttl_minutes, cache_type, cache_data, file, now, opened,
                       failures, last, active, parked, api, served>>

NextErr ==
    \/ \E exception \in Exceptions, context \in Contexts, logok \in BOOLEAN :
            Handle(exception, context, logok)
    \/ Tick

SpecErr == Init /\ [][NextErr]_vars

----------------------------------------------------------------------------
(* CryptoAPI (src/api.py) *)

\* The keys of symbols_map that the model uses.
symbols_map == {"BTC", "ETH"}

\* The symbols a caller may ask for; INVALID123 is not in symbols_map.
Symbols == symbols_map \cup {"INVALID123"}

\* The argument lists of fetch_multiple_tickers.
SymbolLists == UNION {[1 .. n -> Symbols] : n \in 0 .. MaxSymbols}

\* What the exchange answers for a trading pair: ticker['last'].
Ticker == [last |-> 45000]

\* Messages are the pieces of the formatted text, in order.
Contains(message, piece) == \E i \in DOMAIN message : message[i] = piece

\* A faulty fetch_ticker: an unknown symbol is sent to the exchange as a pair.
fetch_ticker_default(symbol, ok, clock) ==
    IF ok
    THEN [raised |-> FALSE, calls |-> 1,
          value |-> [symbol |-> symbol, price |-> Ticker.last, timestamp |-> clock]]
    ELSE [raised |-> TRUE, calls |-> 1,
          value |-> <<"Error fetching", symbol, "NetworkError">>]

\* fetch_ticker(symbol); ok: whether self.exchange.fetch_ticker answers.
\* Every exception is re-raised as Exception("Error fetching <symbol>: <text>").
fetch_ticker(symbol, ok, clock) ==
    IF symbol \notin symbols_map
    THEN [raised |-> TRUE, calls |-> 0,
          value |-> <<"Error fetching", symbol, "Symbol", symbol, "not supported">>]
    ELSE IF ok
    THEN [raised |-> FALSE, calls |-> 1,
          value |-> [symbol |-> symbol, price |-> Ticker.last, timestamp |-> clock]]
    ELSE [raised |-> TRUE, calls |-> 1,
          value |-> <<"Error fetching", symbol, "NetworkError">>]

\* results[symbol] = ... of a dict.
put(results, symbol, entry) ==
    [k \in DOMAIN results \cup {symbol} |-> IF k = symbol THEN entry ELSE results[k]]

\* A faulty fetch_multiple_tickers: no try around fetch_ticker, the first
\* failure ends the call.
RECURSIVE fetch_multiple_tickers_stop(_, _, _)
fetch_multiple_tickers_stop(symbols, oks, clock) ==
    IF symbols = <<>>
    THEN [status |-> "return", value |-> <<>>, calls |-> 0]
    ELSE LET n == Len(symbols)
             rest == fetch_multiple_tickers_stop(SubSeq(symbols, 1, n - 1),
                                                 SubSeq(oks, 1, n - 1), clock)
             r == fetch_ticker(symbols[n], oks[n], clock)
         IN  IF rest.status = "raise" THEN rest
             ELSE IF r.raised
             THEN [status |-> "raise", value |-> r.value, calls |-> rest.calls + r.calls]
             ELSE [status |-> "return", value |-> put(rest.value, symbols[n], r.value),
                   calls |-> rest.calls + r.calls]

\* fetch_multiple_tickers(symbols): the loop over symbols, in order; oks[i]
\* is whether the exchange answers the i-th fetch.
RECURSIVE fetch_multiple_tickers(_, _, _)
fetch_multiple_tickers(symbols, oks, clock) ==
    IF symbols = <<>>
    THEN [status |-> "return", value |-> <<>>, calls |-> 0]
    ELSE LET n == Len(symbols)
             rest == fetch_multiple_tickers(SubSeq(symbols, 1, n - 1),
                                            SubSeq(oks, 1, n - 1), clock)
             r == fetch_ticker(symbols[n], oks[n], clock)
         IN  [status |-> "return",
              value |-> put(rest.value, symbols[n],
                            IF r.raised THEN [error |-> r.value] ELSE r.value),
              calls |-> rest.calls + r.calls]

store_unchanged ==
    UNCHANGED <<cache_file, ttl_minutes, cache_type, cache_data, file, now, opened,
                failures, last, active, parked, error_log, handled, served>>

FetchTicker(symbol, ok) ==
    LET r == fetch_ticker(symbol, ok, now)
    IN  /\ api' = [op |-> "fetch_ticker", symbols |-> <<symbol>>, oks |-> <<ok>>,
                   status |-> IF r.raised THEN "raise" ELSE "return",
                   value |-> r.value, calls |-> r.calls]
        /\ store_unchanged

FetchMultipleTickers(symbols, oks) ==
    LET r == fetch_multiple_tickers(symbols, oks, now)
    IN  /\ api' = [op |-> "fetch_multiple_tickers", symbols |-> symbols, oks |-> oks,
                   status |-> r.status, value |-> r.value, calls |-> r.calls]
        /\ store_unchanged

NextApi ==
    \/ \E symbol \in Symbols, ok \in BOOLEAN : FetchTicker(symbol, ok)
    \/ \E symbols \in SymbolLists :
         \E oks \in [DOMAIN symbols -> BOOLEAN] : FetchMultipleTickers(symbols, oks)
    \/ Tick

SpecApi == Init /\ [][NextApi]_vars

----------------------------------------------------------------------------
(* MCPServer (src/main.py) *)

\* The default of CacheManager's ttl_minutes, which MCPServer's store has.
DefaultTtl == 5

\* A faulty except branch: the error record is stored under the symbol, as
\* fetch_multiple_tickers does with results[symbol].
on_error_cached(data, symbol, record) ==
    [k \in DOMAIN data \cup {symbol} |-> IF k = symbol THEN record ELSE data[k]]

\* What the except branch of get_current_price does to cache_data: nothing.
on_error(data, symbol, record) == data

\* The exception a failed write of the backing file raises.
WriteError == [type |-> "PermissionError", message |-> <<"Permission denied">>]

\* The exception of `self.cache_data[symbol] = data` on a list.
ListError == [type |-> "TypeError", message |-> <<"list indices must be integers">>]

\* get_current_price(symbol), up to the except branch: cache.get, then
\* api.fetch_ticker and cache.save when the get returned None.  ok: whether
\* the exchange answers; wok: whether writes of the backing file succeed.
\* kind "error" carries the exception that reaches the except branch.
get_current_price(symbol, ok, wok) ==
    LET present == cache_type = "dict" /\ symbol \in DOMAIN cache_data
        expired == present /\ is_expired(timestamp_of(cache_data[symbol]), ttl_minutes, now)
        data1 == IF expired THEN del(cache_data, symbol) ELSE cache_data
        r == fetch_ticker(symbol, ok, now)
        data2 == setitem(data1, symbol, r.value)
    IN  IF present /\ ~expired
        THEN \* if cached: return cached
             [kind |-> "cached", value |-> cache_data[symbol], data |-> cache_data,
              content |-> file, persist |-> "none",
              fetches |-> 0, requests |-> 0, evicted |-> FALSE, answered |-> FALSE,
              op |-> "get"]
        ELSE IF expired /\ ~wok
        THEN \* the _save_cache of the evicting get raises
             [kind |-> "error", exception |-> WriteError, data |-> data1,
              content |-> save_cache(cache_type, data1, wok), persist |-> "failed",
              fetches |-> 0, requests |-> 0, evicted |-> TRUE, answered |-> FALSE,
              op |-> "get"]
        ELSE IF r.raised
        THEN \* fetch_ticker raises
             [kind |-> "error",
              exception |-> [type |-> "Exception", message |-> r.value],
              data |-> data1,
              content |-> IF expired THEN save_cache(cache_type, data1, wok) ELSE file,
              persist |-> IF expired THEN "ok" ELSE "none",
              fetches |-> 1, requests |-> r.calls, evicted |-> expired, answered |-> FALSE,
              op |-> "get"]
        ELSE IF cache_type = "list"
        THEN \* cache.save raises TypeError before _save_cache
             [kind |-> "error", exception |-> ListError, data |-> data1,
              content |-> file, persist |-> "none",
              fetches |-> 1, requests |-> r.calls, evicted |-> FALSE, answered |-> TRUE,
              op |-> "save"]
        ELSE IF ~wok
        THEN \* the _save_cache of cache.save raises
             [kind |-> "error", exception |-> WriteError, data |-> data2,
              content |-> save_cache(cache_type, data2, wok), persist |-> "failed",
              fetches |-> 1, requests |-> r.calls, evicted |-> expired, answered |-> TRUE,
              op |-> "save"]
        ELSE [kind |-> "fetched", value |-> r.value, data |-> data2,
              content |-> save_cache(cache_type, data2, wok), persist |-> "ok",
              fetches |-> 1, requests |-> r.calls, evicted |-> expired, answered |-> TRUE,
              op |-> "save"]

\* get_current_price(symbol) as a whole; logok: whether _log_error can write.
GetCurrentPrice(symbol, ok, wok, logok) ==
    /\ cache_type # "unset"
    /\ MayFail(wok)
    /\ \E p \in {get_current_price(symbol, ok, wok)} :
         IF p.kind = "error"
         THEN \* except Exception as e: return self.error_handler.handle(e, symbol)
              \E error_response \in
                    {[error |-> TRUE, message |-> p.exception.message, context |-> symbol,
                      timestamp |-> now, type |-> p.exception.type]} :
                 /\ logok => Len(error_log) < MaxServerLog
                 /\ cache_data' = on_error(p.data, symbol, error_response)
                 /\ file' = p.content
                 /\ served' = [symbol |-> symbol, status |-> "return", kind |-> p.kind,
                               value |-> error_response,
                               fetches |-> p.fetches, requests |-> p.requests,
                               evicted |-> p.evicted, answered |-> p.answered]
                 /\ handled' = [status |-> "return", response |-> error_response,
                                log |-> IF logok THEN "ok" ELSE "failed"]
                 /\ error_log' = (IF logok THEN appended(error_log, error_response)
                                  ELSE error_log)
                 /\ last' = [op |-> p.op, key |-> symbol,
                             status |-> (IF p.persist = "failed" \/ p.op = "save"
                                         THEN "raise" ELSE "miss"),
                             value |-> (IF p.op = "save"
                                        THEN fetch_ticker(symbol, ok, now).value
                                        ELSE NoValue),
                             persist |-> p.persist,
                             at |-> IF p.op = "save" THEN now ELSE 0,
                             before |-> before(symbol), after |-> "other",
                             dropped |-> lost(file')]
                 /\ failures' = counted(p.persist)
         ELSE /\ cache_data' = p.data
              /\ file' = p.content
              /\ served' = [symbol |-> symbol, status |-> "return", kind |-> p.kind,
                            value |-> p.value,
                            fetches |-> p.fetches, requests |-> p.requests,
                            evicted |-> p.evicted, answered |-> p.answered]
              /\ last' = [op |-> p.op, key |-> symbol,
                          status |-> IF p.op = "save" THEN "ok" ELSE "hit",
                          value |-> p.value, persist |-> p.persist,
                          at |-> IF p.op = "save" THEN now ELSE 0,
                          before |-> before(symbol), after |-> "other",
                          dropped |-> lost(file')]
              /\ failures' = counted(p.persist)
              /\ UNCHANGED <<handled, error_log>>
    /\ opened' = used
    /\ UNCHANGED <<cache_file, ttl_minutes, cache_type, now, active, parked, api>>

\* datetime.now() moves on by the store's TTL: an entry written now is still
\* unexpired after one such step and expired after two.
Sleep ==
    /\ now + DefaultTtl <= MaxSleeps * DefaultTtl
    /\ now' = now + DefaultTtl
    /\ UNCHANGED <<cache_file, ttl_minutes, cache_type, cache_data, file, opened, failures, last>>
    /\ UNCHANGED aside

\* The symbols asked of the server.
ServerSymbols == symbols_map

NextServer ==
    \/ Open(DirPath, DefaultTtl)
    \/ \E symbol \in ServerSymbols, ok \in BOOLEAN, wok \in BOOLEAN, logok \in BOOLEAN :
            GetCurrentPrice(symbol, ok, wok, logok)
    \/ Sleep

SpecServer == Init /\ [][NextServer]_vars

----------------------------------------------------------------------------
(* Steps, as seen from the history variables *)

\* A step of get / save / clear: Tick moves the clock and a constructor call
\* leaves opened.fresh set; no other step leaves `last` with that operation.
GetStep == last'.op = "get" /\ now' = now /\ ~opened'.fresh
SaveStep == last'.op = "save" /\ now' = now /\ ~opened'.fresh
ClearStep == last'.op = "clear" /\ now' = now /\ ~opened'.fresh
OpenStep == opened'.fresh /\ now' = now
InfoStep == last'.op = "info" /\ now' = now /\ ~opened'.fresh
HandleStep == handled' # handled \/ error_log' # error_log
ServeStep == served'.status = "return" /\ now' = now /\ ~opened'.fresh

\* The file at a backing path.  No store is ever constructed on the bare file
\* name (its constructor raises), so that file is never created.
FileAt(path) == IF path = DirPath THEN file ELSE MissingFile

\* The entry's own timestamp parses and the TTL has run out since then.
Stale(entry, ttl, clock) ==
    timestamp_of(entry) >= 0 /\ timestamp_of(entry) + ttl < clock

\* The entry's own timestamp parses and the TTL has not run out since then.
Unexpired(entry, ttl, clock) ==
    timestamp_of(entry) >= 0 /\ clock <= timestamp_of(entry) + ttl

----------------------------------------------------------------------------
(* Claims *)

\* C1: save(k, v) directly followed by get(k) on the same store, strictly
\* before the TTL has run out since the save, returns v field for field, for
\* every v, one without a timestamp field included.
C1_SaveThenGetReturnsValue ==
    [][(/\ last.op = "save" /\ last.status = "ok" /\ ~opened.fresh
        /\ GetStep /\ last'.key = last.key
        /\ now < last.at + ttl_minutes)
       => (last'.status = "hit" /\ last'.value = last.value)]_vars

\* C2: get(k) never returns an entry whose timestamp plus the TTL is earlier
\* than the current time; on such an entry it removes k from cache_data,
\* rewrites the backing file without k, and returns None.
C2_NoStaleRead ==
    [][GetStep =>
        LET k == last'.key IN
        /\ last'.status = "hit" => ~Stale(last'.value, ttl_minutes, now)
        /\ (/\ cache_type = "dict" /\ k \in DOMAIN cache_data
            /\ Stale(cache_data[k], ttl_minutes, now))
           => /\ last'.status = "miss"
              /\ k \notin DOMAIN cache_data'
              /\ file'.kind = "object"
              /\ k \notin MemberKeys(file')
              /\ last'.persist = "ok"]_vars

\* C2 witness: a get found an entry whose TTL had run out and evicted it.
C2_Witness ==
    /\ last.op = "get" /\ last.before = "expired" /\ last.status = "miss"
    /\ last.persist = "ok" /\ last.key \notin MemberKeys(file)

\* C3: with TTL = 0, get(k) directly after save(k, v) on the same store
\* returns None, also when the clock has not moved since the timestamp.
C3_ZeroTtlAlwaysMiss ==
    [][(/\ ttl_minutes = 0
        /\ last.op = "save" /\ last.status = "ok" /\ ~opened.fresh
        /\ GetStep /\ last'.key = last.key)
       => last'.status = "miss"]_vars

\* C4: a constructor call on a missing, unreadable or malformed backing file,
\* or one whose content is no JSON object, does not raise and gives a store
\* with zero entries, for every backing path.
C4_OpenNeverRaises ==
    (/\ opened.fresh
     /\ FileAt(cache_file).kind \in {"missing", "unreadable", "corrupt", "array"})
    => (/\ opened.status = "ok"
        /\ cache_type = "dict"
        /\ cache_data = EmptyDict)

\* C5: when no write fails, the backing file agrees with cache_data in every
\* state of a store: after a save, a clear or an evicting get the file holds
\* exactly the keys and entries of cache_data, and a well-formed file never
\* differs from cache_data between operations.
C5_FileMatchesMemory ==
    cache_type # "unset" =>
        /\ last.persist = "ok" => file.kind \in {"object", "array"}
        /\ file.kind = "object" =>
              /\ cache_type = "dict"
              /\ MemberKeys(file) = DOMAIN cache_data
              /\ \A i \in DOMAIN file.items :
                    cache_data[file.items[i][1]] = file.items[i][2]
        /\ file.kind = "array" => cache_type = "list"
        /\ file.kind \in {"missing", "unreadable", "corrupt"} =>
              (cache_type = "dict" /\ cache_data = EmptyDict)

\* C5 witness: an evicting get rewrote the file, and entries remain.
C5_Witness ==
    /\ last.op = "get" /\ last.persist = "ok"
    /\ cache_data # EmptyDict
    /\ MemberKeys(file) = DOMAIN cache_data

\* C6: a store opened on the backing path after a save holds the entries the
\* earlier store held, and its get(k) returns the saved v when that store's
\* TTL has not run out since v's timestamp.
C6_ReopenKeepsEntries ==
    [][/\ (OpenStep /\ opened'.status = "ok" /\ cache_type # "unset")
          => (cache_type' = cache_type /\ cache_data' = cache_data)
       /\ (/\ last.op = "save" /\ last.status = "ok"
           /\ opened.fresh /\ opened.status = "ok"
           /\ GetStep /\ last'.key = last.key
           /\ Unexpired(last.value, ttl_minutes, now))
          => (last'.status = "hit" /\ last'.value = last.value)]_vars

\* C6 witness: the first get on a reopened store returned the entry saved
\* through the store before it.
C6_Witness ==
    /\ last.op = "get" /\ last.after = "save-reopen" /\ last.status = "hit"
    /\ cache_data # EmptyDict

\* C7: save(k, v) stores under k an entry whose timestamp is the clock
\* reading at the save, replaces the prior entry as a whole, and has
\* rewritten the backing file when it returns.
C7_SaveStampsNow ==
    (last.op = "save" /\ last.status = "ok" /\ cache_type = "dict") =>
        /\ last.key \in DOMAIN cache_data
        /\ timestamp_of(cache_data[last.key]) = last.at
        /\ cache_data[last.key].price = last.value.price
        /\ last.persist = "ok"
        /\ file = dumped("dict", cache_data)

\* C8: after clear(k) with a key, neither cache_data nor the backing file
\* holds k, whatever k's state was before, and a get(k) that follows on the
\* same store returns None.
C8_ClearThenGetMisses ==
    [][/\ (ClearStep /\ last'.key \in Keys)
          => (/\ last'.key \notin DOMAIN cache_data'
              /\ last'.key \notin MemberKeys(file'))
       /\ (/\ last.op = "clear" /\ last.key \in Keys /\ ~opened.fresh
           /\ GetStep /\ last'.key = last.key)
          => last'.status = "miss"]_vars

\* C8 witness: get(k) directly after clear(k) returned None.
C8_Witness ==
    /\ last.op = "get" /\ last.after = "clear" /\ last.status = "miss"
    /\ last.key = "BTC" /\ cache_data # EmptyDict

\* C9: clear(key) with any string key, the empty string included, removes
\* that key's entry alone and changes no other entry.
C9_ClearKeyRemovesOnlyKey ==
    [][(ClearStep /\ last'.key \in Keys /\ cache_type = "dict")
       => (/\ cache_type' = "dict"
           /\ cache_data' = [k \in DOMAIN cache_data \ {last'.key} |-> cache_data[k]])]_vars

\* C10: a save, clear or evicting get whose write of the backing file fails
\* ends in an exception, never in a normal return.
C10_WriteFailureRaises ==
    /\ last.persist = "failed" => last.status = "raise"
    /\ last.persist = "ok" => last.status \in {"ok", "miss"}

\* C10 witness: the write of an evicting get failed.
C10_Witness ==
    /\ last.op = "get" /\ last.persist = "failed" /\ last.status = "raise"

\* C11: with two stores open on one backing file, a successful save writes
\* exactly the saving store's own cache_data: every key the file held that
\* this store does not hold is gone from the file afterwards, so a key the
\* other store saved after this one was constructed is lost.
C11_SaveRewritesFromOwnMap ==
    [][(SaveStep /\ active' = active /\ last'.status = "ok")
       => (/\ MemberKeys(file') = DOMAIN cache_data'
           /\ \A k \in MemberKeys(file) :
                 (k \notin DOMAIN cache_data /\ k # last'.key) => k \notin MemberKeys(file')
           /\ last'.dropped = MemberKeys(file) \ DOMAIN cache_data')]_vars

\* C11 witness: the other store's latest call was a successful save("BTC"),
\* it still holds that entry, and the save("ETH") of this store, which never
\* held "BTC", has dropped "BTC" from the file.
C11_Witness ==
    /\ parked.last.op = "save" /\ parked.last.key = "BTC" /\ parked.last.status = "ok"
    /\ "BTC" \in DOMAIN parked.cache_data
    /\ last.op = "save" /\ last.key = "ETH" /\ last.status = "ok"
    /\ last.dropped = {"BTC"}
    /\ MemberKeys(file) = {"ETH"}

\* C12: clear() without a key leaves cache_data empty and the backing file
\* an empty JSON object; a get_cache_info() that follows reports no symbols
\* and zero entries, and a get(k) that follows returns None for every k.
C12_ClearAllEmpties ==
    [][/\ (ClearStep /\ last'.key = NoSymbol)
          => (/\ cache_type' = "dict" /\ cache_data' = EmptyDict
              /\ file' = [kind |-> "object", items |-> <<>>]
              /\ last'.status = "ok")
       /\ (/\ last.op = "clear" /\ last.key = NoSymbol /\ ~opened.fresh /\ InfoStep)
          => (/\ last'.status = "ok"
              /\ last'.value.cached_symbols = {}
              /\ last'.value.total_entries = 0)
       /\ (/\ last.op = "clear" /\ last.key = NoSymbol /\ ~opened.fresh /\ GetStep)
          => last'.status = "miss"]_vars

\* C12 witness: a clear() without a key has emptied a store that held two
\* entries or more.
C12_Witness ==
    /\ last.op = "clear" /\ last.key = NoSymbol /\ last.status = "ok"
    /\ Cardinality(last.dropped) >= 2
    /\ cache_data = EmptyDict
    /\ file = [kind |-> "object", items |-> <<>>]

\* C13: every handle call returns the record {error: true, message, context,
\* timestamp, type} and does not raise; when the log write succeeds the log
\* is the earlier log with that one record appended, and when it fails the
\* log is unchanged.
C13_HandleAppendsOneRecord ==
    [][HandleStep =>
        LET r == handled'.response IN
        /\ handled'.status = "return"
        /\ DOMAIN r = {"error", "message", "context", "timestamp", "type"}
        /\ r.error = TRUE /\ r.timestamp = now
        /\ handled'.log = "ok" =>
              /\ Len(error_log') = Len(error_log) + 1
              /\ SubSeq(error_log', 1, Len(error_log)) = error_log
              /\ error_log'[Len(error_log')] = r
        /\ handled'.log = "failed" => error_log' = error_log]_vars

\* C13 witness: after two records were appended, the log write of a third
\* handle call failed and the call returned its record.
C13_Witness ==
    /\ Len(error_log) = 2 /\ error_log[1] # error_log[2]
    /\ handled.log = "failed" /\ handled.status = "return"
    /\ handled.response # error_log[2]

\* The positions of symbols whose fetch fails: unsupported symbol or
\* exchange error.
Failing(symbols, oks) ==
    {i \in DOMAIN symbols : symbols[i] \notin symbols_map \/ ~oks[i]}

\* The position whose fetch decides the entry of symbols[i].
Deciding(symbols, i) ==
    \A j \in DOMAIN symbols : symbols[j] = symbols[i] => j <= i

\* C14: fetch_multiple_tickers never raises and returns a mapping with one
\* entry per distinct requested symbol; a symbol whose fetch fails gets an
\* {error: message} entry, every other symbol gets its ticker, and every
\* supported symbol of the list is requested from the exchange whatever
\* failed before it.
C14_MultipleTickersNeverRaise ==
    api.op = "fetch_multiple_tickers" =>
        LET symbols == api.symbols
            requested == {symbols[i] : i \in DOMAIN symbols}
        IN  /\ api.status = "return"
            /\ DOMAIN api.value = requested
            /\ Cardinality(DOMAIN api.value) = Cardinality(requested)
            /\ \A i \in DOMAIN symbols :
                  Deciding(symbols, i) =>
                     IF i \in Failing(symbols, api.oks)
                     THEN /\ DOMAIN api.value[symbols[i]] = {"error"}
                          /\ Contains(api.value[symbols[i]].error, symbols[i])
                     ELSE /\ "error" \notin DOMAIN api.value[symbols[i]]
                          /\ api.value[symbols[i]].symbol = symbols[i]
            /\ api.calls = Cardinality({i \in DOMAIN symbols : symbols[i] \in symbols_map})

\* C14 witness: an unsupported symbol and an exchange error come first and
\* the third symbol is still fetched.
C14_Witness ==
    /\ api.op = "fetch_multiple_tickers" /\ api.status = "return"
    /\ api.symbols = <<"INVALID123", "BTC", "ETH">>
    /\ api.oks = <<TRUE, FALSE, TRUE>>
    /\ DOMAIN api.value["INVALID123"] = {"error"}
    /\ DOMAIN api.value["BTC"] = {"error"}
    /\ api.value["ETH"].price = Ticker.last
    /\ api.calls = 2

\* C15: fetch_ticker of a symbol outside symbols_map raises an error whose
\* message contains "not supported" and sends nothing to the exchange.
C15_UnsupportedSymbolRejected ==
    (api.op = "fetch_ticker" /\ api.symbols[1] \notin symbols_map) =>
        /\ api.status = "raise"
        /\ Contains(api.value, "not supported")
        /\ api.calls = 0

\* C15 witness: fetch_ticker of INVALID123 has raised.
C15_Witness ==
    /\ api.op = "fetch_ticker" /\ api.symbols = <<"INVALID123">>
    /\ api.status = "raise" /\ api.calls = 0

\* C16: a get(k) that finds k present and not expired is a hit without side
\* effects: cache_data and the backing file are unchanged, no write of the
\* file is attempted or counted, and the value returned is the stored entry.
C16_HitHasNoSideEffects ==
    [][GetStep =>
        LET k == last'.key IN
        /\ (/\ cache_type = "dict" /\ k \in DOMAIN cache_data
            /\ Unexpired(cache_data[k], ttl_minutes, now))
           => last'.status = "hit"
        /\ last'.status = "hit"
           => /\ cache_data' = cache_data
              /\ file' = file
              /\ last'.persist = "none" /\ failures' = failures
              /\ last'.dropped = {}
              /\ last'.value = cache_data[k]
              /\ last'.value = cache_data'[k]]_vars

\* C16 witness: a get returned a stored entry while the backing file holds
\* that entry and another one.
C16_Witness ==
    /\ last.op = "get" /\ last.status = "hit" /\ last.before = "valid"
    /\ last.key \in DOMAIN cache_data /\ last.value = cache_data[last.key]
    /\ Cardinality(MemberKeys(file)) >= 2
    /\ now > 0

\* The entry has no 'timestamp' field, or one that fromisoformat rejects.
Unparsable(entry) ==
    "timestamp" \notin DOMAIN entry \/ entry.timestamp \in BadStamps

\* C17: get(k) on an entry whose timestamp is absent, the empty string, not
\* ISO-8601 or not a string returns None without raising, removes k from
\* cache_data and rewrites the backing file without it, whatever the TTL;
\* no get returns such an entry.
C17_UnparsableIsExpired ==
    [][GetStep =>
        LET k == last'.key IN
        /\ last'.status = "hit" => ~Unparsable(last'.value)
        /\ (/\ cache_type = "dict" /\ k \in DOMAIN cache_data
            /\ Unparsable(cache_data[k]))
           => /\ last'.status = "miss"
              /\ cache_data' = del(cache_data, k)
              /\ last'.persist = "ok"
              /\ file'.kind = "object"
              /\ MemberKeys(file') = DOMAIN cache_data \ {k}]_vars

\* C17 witness: with the longest TTL and the clock at the start, a get
\* evicted an entry without a usable timestamp and kept the other entry,
\* whose timestamp is not a string.
C17_Witness ==
    /\ last.op = "get" /\ last.before = "unstamped" /\ last.status = "miss"
    /\ last.persist = "ok" /\ ttl_minutes = MaxTtl /\ now = 0
    /\ last.key \notin DOMAIN cache_data /\ last.key \notin MemberKeys(file)
    /\ \E k \in DOMAIN cache_data :
          "timestamp" \in DOMAIN cache_data[k] /\ cache_data[k].timestamp = NonStr

\* The step is one of the operations through which an entry for k may leave
\* the store: get(k), clear(k), clear() or save(k, v).  A constructor call
\* makes a new store and is set apart.
Touches(k) ==
    \/ GetStep /\ last'.key = k
    \/ ClearStep /\ last'.key \in {k, NoSymbol}
    \/ SaveStep /\ last'.key = k
    \/ OpenStep

\* C18: an entry for k whose TTL has run out stays, unchanged, in cache_data
\* and in the backing file across every clock advance, get_cache_info() and
\* save, get or clear of another key; only get(k), clear(k), clear() and
\* save(k, v) take it out of the store.
C18_ExpirationIsLazy ==
    [][\A k \in Keys :
         (/\ cache_type = "dict" /\ k \in DOMAIN cache_data
          /\ Stale(cache_data[k], ttl_minutes, now)
          /\ k \in MemberKeys(file)
          /\ ~Touches(k))
         => (/\ k \in DOMAIN cache_data' /\ cache_data'[k] = cache_data[k]
             /\ k \in MemberKeys(file'))]_vars

\* The entries the backing file holds under key k.
FileEntries(f, k) == {f.items[i][2] : i \in {j \in DOMAIN f.items : f.items[j][1] = k}}

\* C19: an entry that is in the store before and after a step is the same
\* entry, field for field, in cache_data and in the backing file, unless the
\* step is a save of its key; the file never holds two members for one key.
C19_NoInPlaceChange ==
    [][/\ \A k \in Keys :
            ~(SaveStep /\ last'.key = k) =>
               /\ (/\ cache_type = "dict" /\ cache_type' = "dict"
                   /\ k \in DOMAIN cache_data /\ k \in DOMAIN cache_data')
                  => cache_data'[k] = cache_data[k]
               /\ (k \in MemberKeys(file) /\ k \in MemberKeys(file'))
                  => FileEntries(file', k) = FileEntries(file, k)
       /\ Cardinality(MemberKeys(file')) = Len(file'.items)
       /\ \A k \in MemberKeys(file') : Cardinality(FileEntries(file', k)) = 1]_vars

\* C19 witness: a get evicted the entry of ETH while the entry of BTC, with
\* a timestamp of its own, stayed in cache_data and in the backing file.
C19_Witness ==
    /\ last.op = "get" /\ last.key = "ETH" /\ last.persist = "ok"
    /\ last.dropped = {"ETH"}
    /\ "BTC" \in DOMAIN cache_data
    /\ "timestamp" \in DOMAIN cache_data["BTC"]
    /\ FileEntries(file, "BTC") = {cache_data["BTC"]}

\* C20: get_cache_info() returns the backing path, the TTL given to the
\* constructor, the keys of every entry in the store, expired ones included,
\* and their number; it changes neither cache_data nor the backing file and
\* writes nothing.
C20_InfoIsPureSnapshot ==
    [][InfoStep =>
        /\ last'.status = "ok"
        /\ last'.value.file = cache_file
        /\ last'.value.ttl_minutes = ttl_minutes
        /\ last'.value.cached_symbols = DOMAIN cache_data
        /\ last'.value.total_entries = Cardinality(DOMAIN cache_data)
        /\ cache_data' = cache_data /\ cache_type' = cache_type
        /\ file' = file
        /\ last'.persist = "none"]_vars

\* C21: every clear, with or without a key, rewrites the backing file from
\* cache_data and returns normally, also when no entry was removed; a clear
\* directly after the same clear on the same store leaves cache_data and the
\* file exactly as the first one left them.
C21_ClearAlwaysWritesIdempotent ==
    [][ClearStep =>
        /\ last'.status = "ok" /\ last'.persist = "ok"
        /\ file' = dumped(cache_type', cache_data')
        /\ (/\ last.op = "clear" /\ last.key = last'.key /\ last.status = "ok"
            /\ ~opened.fresh)
           => /\ cache_type' = cache_type /\ cache_data' = cache_data
              /\ file' = file]_vars

\* C21 witness: a clear of a key that has no entry rewrote the file of a
\* store that holds other entries, removed nothing and returned normally.
C21_Witness ==
    /\ last.op = "clear" /\ last.key = "BTC" /\ last.before = "absent"
    /\ last.status = "ok" /\ last.persist = "ok" /\ last.dropped = {}
    /\ cache_data # EmptyDict
    /\ file = dumped(cache_type, cache_data)

\* C22: get_current_price(symbol) returns the cache's unexpired entry for the
\* symbol without a call of the exchange; otherwise it calls fetch_ticker
\* once and, the exchange having answered and no write having failed, stores
\* the ticker under the symbol and returns it.  A call directly after a
\* successful call for the same symbol, within the TTL of what that one
\* returned, makes no fetch and returns the same data.
C22_CacheFirst ==
    [][ServeStep =>
        LET k == served'.symbol
            held == /\ cache_type = "dict" /\ k \in DOMAIN cache_data
                    /\ Unexpired(cache_data[k], ttl_minutes, now)
        IN  /\ held => /\ served'.kind = "cached" /\ served'.value = cache_data[k]
                       /\ served'.fetches = 0 /\ served'.requests = 0
            /\ (~held /\ last'.persist # "failed")
               => /\ served'.fetches = 1
                  /\ served'.answered
                     => /\ served'.kind = "fetched"
                        /\ served'.value.symbol = k
                        /\ cache_type' = "dict" /\ k \in DOMAIN cache_data'
                        /\ cache_data'[k] = served'.value
            /\ (/\ served.symbol = k /\ served.kind \in {"cached", "fetched"}
                /\ ~opened.fresh
                /\ Unexpired(served.value, ttl_minutes, now))
               => /\ served'.fetches = 0
                  /\ served'.value = served.value]_vars

\* C23: get_current_price always returns; when the evicting read's write,
\* the fetch, or the save fails, what it returns is the record that
\* ErrorHandler.handle built for the symbol; no entry of cache_data is ever
\* an error record; and after a failed fetch cache_data is what the cache
\* read left, every other symbol's entry being as before the call.
C23_ServerNeverRaises ==
    [][ServeStep =>
        LET k == served'.symbol
            failed == \/ last'.persist = "failed"
                      \/ served'.fetches = 1 /\ ~served'.answered
                      \/ served'.answered /\ cache_type = "list"
        IN  /\ served'.status = "return"
            /\ failed <=> served'.kind = "error"
            /\ failed => /\ served'.value = handled'.response
                         /\ handled'.status = "return"
                         /\ served'.value.error = TRUE
                         /\ served'.value.context = k
            /\ cache_type' = cache_type
            /\ cache_type' = "dict" =>
                  \A s \in DOMAIN cache_data' : "error" \notin DOMAIN cache_data'[s]
            /\ (served'.fetches = 1 /\ ~served'.answered)
               => /\ cache_data' = (IF served'.evicted THEN del(cache_data, k)
                                    ELSE cache_data)
                  /\ \A s \in DOMAIN cache_data \ {k} :
                        s \in DOMAIN cache_data' /\ cache_data'[s] = cache_data[s]
                  /\ IF served'.evicted
                     THEN MemberKeys(file') = DOMAIN cache_data'
                     ELSE file' = file]_vars

\* C23 witness: the fetch for BTC failed after the read had evicted BTC's
\* expired entry; the call returned handle's record and ETH's entry is
\* still cached.
C23_Witness ==
    /\ served.symbol = "BTC" /\ served.kind = "error" /\ served.status = "return"
    /\ served.fetches = 1 /\ ~served.answered /\ served.evicted
    /\ served.value = handled.response
    /\ DOMAIN cache_data = {"ETH"}
    /\ "error" \notin DOMAIN cache_data["ETH"]

\* C24: a save, clear or evicting get whose write fails has changed
\* cache_data all the same and raises, and the backing file is as it was
\* before the call; a get of the same key directly after a failed save, on
\* the same store and within the TTL of the saved entry, returns that entry.
C24_FailedWriteNotRolledBack ==
    [][/\ (SaveStep /\ last'.persist = "failed")
          => /\ last'.status = "raise"
             /\ cache_data' = setitem(cache_data, last'.key, last'.value)
             /\ file' = file
       /\ (ClearStep /\ last'.persist = "failed")
          => /\ last'.status = "raise"
             /\ cache_data' = cleared(cache_type, cache_data, last'.key).data
             /\ file' = file
       /\ (GetStep /\ last'.persist = "failed")
          => /\ last'.status = "raise"
             /\ cache_data' = del(cache_data, last'.key)
             /\ file' = file
       /\ (/\ GetStep /\ last.op = "save" /\ last.persist = "failed"
           /\ last'.key = last.key /\ ~opened.fresh
           /\ Unexpired(last.value, ttl_minutes, now))
          => /\ last'.status = "hit"
             /\ last'.value = last.value]_vars

====
